---- MODULE Spec2Model ----
(***************************************************************************)
(* nftfloorbot: main's loop over watchFloor, in the version that starts    *)
(* one goroutine per store and fetches the slugs of a store in turn.       *)
(*                                                                         *)
(* Floors are float64 in the program; the model uses small naturals, and   *)
(* the Min of a store may be negative.  time.Now() is the cycle's number.  *)
(***************************************************************************)
EXTENDS Integers, Sequences, FiniteSets, TLC

\* ------------------------------------------------------------------ bounds
MaxFetches == 4         \* a run is explored while its fetches stay within this
MaxPath    == 3         \* keys in the tree of a call of fetchFloor
MaxHistory == 3         \* entries in the history of a call of findFloor

\* ------------------------------------------------------------ configuration
\* What parseConfig may return.  Min 0 is what a config without "min" decodes
\* to.  In the first config each store watches one collection; in the second,
\* store 1 watches two and store 2 watches one of them as well.
Configs ==
    { [Stores |->
        << [Slugs |-> <<"x">>, StoreURL |-> "s1", Max |-> 2, Min |-> 0],
           [Slugs |-> <<"y">>, StoreURL |-> "s2", Max |-> 2, Min |-> -1] >>],
      [Stores |->
        << [Slugs |-> <<"x", "y">>, StoreURL |-> "s1", Max |-> 2, Min |-> 0],
           [Slugs |-> <<"x">>,      StoreURL |-> "s2", Max |-> 2, Min |-> -1] >>] }

\* The floors a fetch may return: 0 (at or below the Min of store 1, inside
\* the band of store 2), 1 (inside both bands) and 2 (at the Max of both).
Floors  == {0, 1, 2}
NoFloor == -1           \* no floor: the fetch failed, or was never answered

VARIABLES
    config,      \* the Config main parsed; never changes
    \* the history file
    file,        \* decoded content: a sequence of Persisted
    fileState,   \* "missing", "ok" (a JSON array) or "corrupt" (a torn write)
    \* main and watchFloor
    pc,          \* "sleep", "wait", "notify", "persist", "crashed"
    cycle,       \* cycles started so far; the value time.Now() gives
    old_floors,  \* what readFloor returned
    message,     \* []string, shared by the workers
    floors,      \* map[string]float64, shared by the workers
    wg,          \* the WaitGroup's counter
    \* the goroutine of each store
    wpc,         \* "idle","next","fetching","record","recording","append","appending","done"
    idx,         \* position in store.Slugs
    floor,       \* fetched floor
    old_floor,   \* findFloor(old_floors, slug)
    hdr,         \* the slice header append read
    snap,        \* the map as the worker's assignment found it
    raced,       \* the worker's map write overlapped another worker's
    \* the outside world and the record of what the cycle did
    market,      \* floor the marketplace returned last for (store, slug)
    alertsSince, \* alert lines for (store, slug) since its floor last changed
    produced,    \* alert lines formatted in this cycle
    recorded,    \* <<store, slug, floor>> for which floors[slug] = floor ran
    handled,     \* per worker: what became of each slug processed in this cycle
    sends,       \* calls of sendMessage in this cycle
    sentText,    \* the text of the last call
    writes,      \* calls of saveFloor in this cycle
    written,     \* the sequence the last call marshalled
    loadErr,     \* readFloor returned an error in this cycle
    undelivered, \* the alert lines of the last sendMessage, when it failed
    unwritten,   \* <<slug, floor>> of the last saveFloor, when it failed
    issued,      \* per worker: calls of http.Get made in this cycle
    returned,    \* per worker: calls of http.Get that have returned
    call,        \* a function called on its own: its name and its arguments
    ret          \* what the call returned

watchVars == << config, file, fileState, pc, cycle, old_floors, message, floors, wg,
           wpc, idx, floor, old_floor, hdr, snap, raced,
           market, alertsSince, produced, recorded, handled,
           sends, sentText, writes, written, loadErr, undelivered, unwritten,
           issued, returned >>

callVars == << call, ret >>

vars == << watchVars, callVars >>

fileVars   == << file, fileState >>
workerVars == << wpc, idx, floor, old_floor, hdr, snap, raced >>
fetchVars  == << issued, returned >>
ghostVars  == << market, alertsSince, produced, recorded, handled >>
ioVars     == << sends, sentText, writes, written,
                 loadErr, undelivered, unwritten >>

\* ------------------------------------------------------------------ helpers
Stores  == config.Stores
Workers == 1..Len(Stores)

RECURSIVE SlugCount(_)
SlugCount(stores) ==
    IF Len(stores) = 0 THEN 0 ELSE Len(Head(stores).Slugs) + SlugCount(Tail(stores))

Persisted(slug, fl, date) == [slug |-> slug, floor |-> fl, date |-> date]

Slug(w) == Stores[w].Slugs[idx[w]]

\* the scan started at the wrong end: the oldest entry of the slug wins
RECURSIVE findFloorOldest(_, _)
findFloorOldest(old, slug) ==
    IF Len(old) = 0 THEN 0
    ELSE IF Head(old).slug = slug THEN Head(old).floor
    ELSE findFloorOldest(Tail(old), slug)

\* for i := len(persisted) - 1; i >= 0; i-- { ... }; return 0
RECURSIVE findFloor(_, _)
findFloor(old, slug) ==
    IF Len(old) = 0 THEN 0
    ELSE IF old[Len(old)].slug = slug THEN old[Len(old)].floor
    ELSE findFloor(SubSeq(old, 1, Len(old) - 1), slug)

\* a slip in the comparison: only a floor that fell is taken as unchanged
UnchangedWhenBelow(old, fl) == old > 0 /\ old > fl

\* floor unchanged. ignore
Unchanged(old, fl) == old > 0 /\ old = fl

\* the test of the single-threshold version: only a floor above Max is muted
OutOfBandAboveOnly(store, fl) == fl > store.Max

\* dont send message if floor is above threshold
OutOfBand(store, fl) == fl >= store.Max \/ fl <= store.Min

\* the slip of taking a floor that did not fall for one that rose
DifNotNegative(fl, old) == fl >= old

\* dif := (floor - old_floor) / floor, dif > 0, in float64:
\* x/0 is +Inf for x > 0, -Inf for x < 0 and NaN for x = 0.
DifPositive(fl, old) ==
    IF fl = 0 THEN old < 0
    ELSE IF fl > 0 THEN fl > old
    ELSE fl < old

\* dif*100 as %.2f prints it: the hundredths of a percent nearest to the
\* quotient (no quotient of floors this small lies halfway between two),
\* or the name float64 formatting gives to a division by 0.
Percent(fl, old) ==
    IF fl = 0
    THEN [special |-> IF old < 0 THEN "+Inf" ELSE IF old > 0 THEN "-Inf" ELSE "NaN",
          hundredths |-> 0]
    ELSE LET num == IF fl > 0 THEN 10000 * (fl - old) ELSE 10000 * (old - fl)
             den == IF fl > 0 THEN fl ELSE 0 - fl
         IN  [special |-> "", hundredths |-> (2 * num + den) \div (2 * den)]

\* msg: "[slug](store_url): floor" followed by "*(+%.2f%%)*" when dif > 0
\* and by the percentage between backquotes otherwise
AlertLine(w, slug, fl, old) ==
    [slug |-> slug, url |-> Stores[w].StoreURL, floor |-> fl, old |-> old,
     marker |-> IF DifPositive(fl, old) THEN "*(+%)*" ELSE "(%)",
     pct |-> Percent(fl, old)]

NL == [slug |-> "\n", url |-> "", floor |-> 0, old |-> 0, marker |-> "",
       pct |-> [special |-> "", hundredths |-> 0]]

\* strings.Join(message, "\n")
RECURSIVE Join(_)
Join(msgs) ==
    IF Len(msgs) = 0 THEN << >>
    ELSE IF Len(msgs) = 1 THEN << msgs[1] >>
    ELSE << msgs[1], NL >> \o Join(Tail(msgs))

\* floors[slug] = floor
MapSet(m, slug, fl) ==
    [s \in DOMAIN m \cup {slug} |-> IF s = slug THEN fl ELSE m[s]]

EmptyMap == [s \in {} |-> 0]

\* the orders in which range may visit the keys of a map
Orders(keys) ==
    { o \in [1..Cardinality(keys) -> keys] :
        \A i, j \in 1..Cardinality(keys) : i # j => o[i] # o[j] }

\* the loop of saveFloor: one Persisted per key, in the order of the range
Appended(persisted, m, order, now) ==
    persisted \o [i \in 1..Len(order) |-> Persisted(order[i], m[order[i]], now)]

\* -------------------------------------------------------------- fetchFloor
\* What encoding/json makes of a body: a number is a float64, an object a
\* map[string]interface{}; strings, booleans and arrays are "other".  A body
\* that is no JSON at all is "bad".
Keys == {"a", "b"}

Numbers == {1, 5}

Num(n) == [t |-> "num", n |-> n, m |-> EmptyMap]

Obj(m) == [t |-> "obj", n |-> 0, m |-> m]

Other == [t |-> "other", n |-> 0, m |-> EmptyMap]

Null == [t |-> "null", n |-> 0, m |-> EmptyMap]

Bad == [t |-> "bad", n |-> 0, m |-> EmptyMap]

Leaves == { Num(n) : n \in Numbers } \cup {Other, Null}

ObjectsOver(vals) == UNION { { Obj(m) : m \in [S -> vals] } : S \in SUBSET Keys }

\* the bodies a marketplace may answer with: objects nested twice at most
Bodies == Leaves \cup ObjectsOver(Leaves \cup ObjectsOver(Leaves)) \cup {Bad}

RECURSIVE SeqsUpTo(_, _)
SeqsUpTo(S, n) ==
    IF n = 0 THEN { << >> }
    ELSE LET shorter == SeqsUpTo(S, n - 1)
         IN  shorter \cup { Append(q, x) : q \in shorter, x \in S }

Trees == SeqsUpTo(Keys, MaxPath)

Multipliers == {1, 2}

Returned(v) == [done |-> TRUE, err |-> FALSE, val |-> v]

Failed == [done |-> TRUE, err |-> TRUE, val |-> 0]

\* the mistake of reading the floor only under the last key of the tree
RECURSIVE traverseToLastKey(_, _, _)
traverseToLastKey(stats, tree, multiplier) ==
    IF Len(tree) = 0 THEN Failed
    ELSE LET key == Head(tree)
             val == IF key \in DOMAIN stats THEN stats[key] ELSE Null
         IN  IF val.t = "num" /\ Len(tree) = 1 THEN Returned(val.n * multiplier)
             ELSE IF val.t = "obj"
                  THEN traverseToLastKey(val.m, Tail(tree), multiplier)
                  ELSE Failed

\* for _, key := range tree { switch val := stats[key].(type) { ... } }:
\* a key the map does not hold gives nil, which is the default case
RECURSIVE traverse(_, _, _)
traverse(stats, tree, multiplier) ==
    IF Len(tree) = 0 THEN Failed
    ELSE LET key == Head(tree)
             val == IF key \in DOMAIN stats THEN stats[key] ELSE Null
         IN  IF val.t = "num" THEN Returned(val.n * multiplier)
             ELSE IF val.t = "obj" THEN traverse(val.m, Tail(tree), multiplier)
             ELSE Failed

\* json.Unmarshal(body, &stats) into a map[string]interface{}: an error
\* unless the body is an object or null (null leaves the map nil)
fetchFloor(body, tree, multiplier) ==
    IF body.t = "obj" THEN traverse(body.m, tree, multiplier)
    ELSE IF body.t = "null" THEN traverse(EmptyMap, tree, multiplier)
    ELSE Failed

\* ------------------------------------------------------------------- Init
\* The process has just parsed its config; no history file exists yet.
WatchInit ==
    /\ config \in Configs
    /\ file = << >>
    /\ fileState = "missing"
    /\ pc = "sleep"
    /\ cycle = 0
    /\ old_floors = << >>
    /\ message = << >>
    /\ floors = EmptyMap
    /\ wg = 0
    /\ wpc = [w \in Workers |-> "idle"]
    /\ idx = [w \in Workers |-> 1]
    /\ floor = [w \in Workers |-> 0]
    /\ old_floor = [w \in Workers |-> 0]
    /\ hdr = [w \in Workers |-> << >>]
    /\ snap = [w \in Workers |-> EmptyMap]
    /\ raced = [w \in Workers |-> FALSE]
    /\ market = [w \in Workers |-> [i \in 1..Len(Stores[w].Slugs) |-> NoFloor]]
    /\ alertsSince = [w \in Workers |-> [i \in 1..Len(Stores[w].Slugs) |-> 0]]
    /\ produced = {}
    /\ recorded = {}
    /\ handled = [w \in Workers |-> << >>]
    /\ sends = 0
    /\ sentText = << >>
    /\ writes = 0
    /\ written = << >>
    /\ loadErr = FALSE
    /\ undelivered = {}
    /\ unwritten = {}
    /\ issued = [w \in Workers |-> 0]
    /\ returned = [w \in Workers |-> 0]

NoCall == [fn |-> "none"]

NoRet == [done |-> FALSE]

Init ==
    /\ WatchInit
    /\ call = NoCall
    /\ ret = NoRet

\* ------------------------------------------------ watchFloor: the beginning
\* readFloor: ok only when the file holds a JSON array and the read succeeds;
\* on any error the slice stays nil.
readFloorKeepsFile(ok) == file

readFloor(ok) == IF ok THEN file ELSE << >>

\* main calls watchFloor: message and floors are fresh, the history is read,
\* wg.Add(len(config.Stores)) and one goroutine per store is started.
StartCycle(ok) ==
    /\ pc = "sleep"
    /\ (cycle + 1) * SlugCount(Stores) <= MaxFetches
    /\ ok => fileState = "ok"
    /\ cycle' = cycle + 1
    /\ old_floors' = readFloor(ok)
    /\ message' = << >>
    /\ floors' = EmptyMap
    /\ wg' = Len(Stores)
    /\ wpc' = [w \in Workers |-> "next"]
    /\ idx' = [w \in Workers |-> 1]
    /\ floor' = [w \in Workers |-> 0]
    /\ old_floor' = [w \in Workers |-> 0]
    /\ hdr' = [w \in Workers |-> << >>]
    /\ snap' = [w \in Workers |-> EmptyMap]
    /\ raced' = [w \in Workers |-> FALSE]
    /\ produced' = {}
    /\ recorded' = {}
    /\ handled' = [w \in Workers |-> << >>]
    /\ sends' = 0
    /\ sentText' = << >>
    /\ writes' = 0
    /\ written' = << >>
    /\ loadErr' = ~ok
    /\ issued' = [w \in Workers |-> 0]
    /\ returned' = [w \in Workers |-> 0]
    /\ pc' = "wait"
    /\ UNCHANGED << config, fileVars, market, alertsSince, undelivered, unwritten >>

\* ------------------------------------------------- the goroutine of a store
Running == pc = "wait"

Finish(w, entry) ==
    /\ idx' = [idx EXCEPT ![w] = @ + 1]
    /\ handled' = [handled EXCEPT ![w] = Append(@, entry)]
    /\ wpc' = [wpc EXCEPT ![w] = "next"]

\* the slip of starting one goroutine per slug: a fetch is issued while the
\* fetch before it is still in flight
FetchStartConcurrent(w) ==
    /\ Running
    /\ wpc[w] \in {"next", "fetching"}
    /\ issued[w] < Len(Stores[w].Slugs)
    /\ wpc' = [wpc EXCEPT ![w] = "fetching"]
    /\ issued' = [issued EXCEPT ![w] = @ + 1]
    /\ UNCHANGED << config, fileVars, pc, cycle, old_floors, message, floors, wg,
                    idx, floor, old_floor, hdr, snap, raced, ghostVars, ioVars, returned >>

\* for _, slug := range store.Slugs: the next slug's http.Get is issued
FetchStart(w) ==
    /\ Running
    /\ wpc[w] = "next"
    /\ idx[w] <= Len(Stores[w].Slugs)
    /\ wpc' = [wpc EXCEPT ![w] = "fetching"]
    /\ issued' = [issued EXCEPT ![w] = @ + 1]
    /\ UNCHANGED << config, fileVars, pc, cycle, old_floors, message, floors, wg,
                    idx, floor, old_floor, hdr, snap, raced, ghostVars, ioVars, returned >>

\* fetchFloor returned an error: print it and continue with the next slug
FetchErr(w) ==
    /\ Running
    /\ wpc[w] = "fetching"
    /\ returned' = [returned EXCEPT ![w] = @ + 1]
    /\ Finish(w, [slug |-> Slug(w), floor |-> NoFloor, old |-> 0])
    /\ UNCHANGED << config, fileVars, pc, cycle, old_floors, message, floors, wg,
                    floor, old_floor, hdr, snap, raced,
                    market, alertsSince, produced, recorded, ioVars, issued >>

\* fetchFloor returned the floor v; findFloor; the unchanged test
FetchOK(w, v) ==
    /\ Running
    /\ wpc[w] = "fetching"
    /\ returned' = [returned EXCEPT ![w] = @ + 1]
    /\ LET old == findFloor(old_floors, Slug(w)) IN
        /\ floor' = [floor EXCEPT ![w] = v]
        /\ old_floor' = [old_floor EXCEPT ![w] = old]
        /\ market' = [market EXCEPT ![w][idx[w]] = v]
        /\ alertsSince' = [alertsSince EXCEPT ![w][idx[w]] =
                              IF market[w][idx[w]] = v THEN @ ELSE 0]
        /\ IF Unchanged(old, v)
           THEN Finish(w, [slug |-> Slug(w), floor |-> v, old |-> old])
           ELSE /\ wpc' = [wpc EXCEPT ![w] = "record"]
                /\ UNCHANGED << idx, handled >>
    /\ UNCHANGED << config, fileVars, pc, cycle, old_floors, message, floors, wg,
                    hdr, snap, raced, produced, recorded, ioVars, issued >>

\* floors[slug] = floor begins: the runtime marks the map as being written.
\* No lock is held, so another worker may be inside its own assignment.
MapWriteBegin(w) ==
    /\ Running
    /\ wpc[w] = "record"
    /\ wpc' = [wpc EXCEPT ![w] = "recording"]
    /\ snap' = [snap EXCEPT ![w] = floors]
    /\ raced' = [u \in Workers |->
                    IF \E o \in Workers \ {w} : wpc[o] = "recording"
                    THEN (u = w \/ wpc[u] = "recording" \/ raced[u])
                    ELSE raced[u]]
    /\ recorded' = recorded \cup { << w, Slug(w), floor[w] >> }
    /\ UNCHANGED << config, fileVars, pc, cycle, old_floors, message, floors, wg,
                    idx, floor, old_floor, hdr,
                    market, alertsSince, produced, handled, ioVars, fetchVars >>

\* The map after the assignment.  Alone in the map the entry is set.  When the
\* assignment overlapped another one, the entry may also have gone into the
\* map as it was when the assignment began, and the other entry is lost.
MapWriteResults(w) ==
    { MapSet(floors, Slug(w), floor[w]) } \cup
    IF raced[w] THEN { MapSet(snap[w], Slug(w), floor[w]) } ELSE {}

\* floors[slug] = floor ends; fmt.Println; the band test
MapWriteEnd(w, m) ==
    /\ Running
    /\ wpc[w] = "recording"
    /\ m \in MapWriteResults(w)
    /\ floors' = m
    /\ raced' = [raced EXCEPT ![w] = FALSE]
    /\ IF OutOfBand(Stores[w], floor[w])
       THEN Finish(w, [slug |-> Slug(w), floor |-> floor[w], old |-> old_floor[w]])
       ELSE /\ wpc' = [wpc EXCEPT ![w] = "append"]
            /\ UNCHANGED << idx, handled >>
    /\ UNCHANGED << config, fileVars, pc, cycle, old_floors, message, wg,
                    floor, old_floor, hdr, snap,
                    market, alertsSince, produced, recorded, ioVars, fetchVars >>

\* The runtime notices two assignments inside the map at once:
\* "fatal error: concurrent map writes", and the process is gone.
MapWriteThrow(w) ==
    /\ Running
    /\ wpc[w] = "recording"
    /\ raced[w]
    /\ pc' = "crashed"
    /\ UNCHANGED << config, fileVars, cycle, old_floors, message, floors, wg,
                    workerVars, ghostVars, ioVars, fetchVars >>

\* msg is formatted; append(message, msg) reads the slice header
AppendRead(w) ==
    /\ Running
    /\ wpc[w] = "append"
    /\ hdr' = [hdr EXCEPT ![w] = message]
    /\ produced' = produced \cup { AlertLine(w, Slug(w), floor[w], old_floor[w]) }
    /\ alertsSince' = [alertsSince EXCEPT ![w][idx[w]] = @ + 1]
    /\ wpc' = [wpc EXCEPT ![w] = "appending"]
    /\ UNCHANGED << config, fileVars, pc, cycle, old_floors, message, floors, wg,
                    idx, floor, old_floor, snap, raced,
                    market, recorded, handled, ioVars, fetchVars >>

\* message = <the header read, one element longer>
AppendWrite(w) ==
    /\ Running
    /\ wpc[w] = "appending"
    /\ message' = Append(hdr[w], AlertLine(w, Slug(w), floor[w], old_floor[w]))
    /\ Finish(w, [slug |-> Slug(w), floor |-> floor[w], old |-> old_floor[w]])
    /\ UNCHANGED << config, fileVars, pc, cycle, old_floors, floors, wg,
                    floor, old_floor, hdr, snap, raced,
                    market, alertsSince, produced, recorded, ioVars, fetchVars >>

\* the range is exhausted: wg.Done()
WorkerDone(w) ==
    /\ Running
    /\ wpc[w] = "next"
    /\ idx[w] > Len(Stores[w].Slugs)
    /\ wg' = wg - 1
    /\ wpc' = [wpc EXCEPT ![w] = "done"]
    /\ UNCHANGED << config, fileVars, pc, cycle, old_floors, message, floors,
                    idx, floor, old_floor, hdr, snap, raced, ghostVars, ioVars, fetchVars >>

\* --------------------------------------------------- watchFloor: the ending
\* the version without a WaitGroup ("TODO: wait"): nothing is waited for
JoinedWithoutWait == TRUE

\* wg.Wait() returns when the counter is zero
Joined == wg = 0

WgWait ==
    /\ pc = "wait"
    /\ Joined
    /\ pc' = "notify"
    /\ UNCHANGED << config, fileVars, cycle, old_floors, message, floors, wg,
                    workerVars, ghostVars, ioVars, fetchVars >>

\* if len(message) > 0 { sendMessage(..., strings.Join(message, "\n")) };
\* an error of the delivery (delivered = FALSE) is printed and the cycle goes on.
Notify(delivered) ==
    /\ pc = "notify"
    /\ Len(message) > 0
    /\ sends' = sends + 1
    /\ sentText' = Join(message)
    /\ undelivered' = IF delivered THEN {} ELSE { message[i] : i \in 1..Len(message) }
    /\ pc' = "persist"
    /\ UNCHANGED << config, fileVars, cycle, old_floors, message, floors, wg,
                    workerVars, ghostVars, fetchVars, writes, written, loadErr, unwritten >>

SkipNotify ==
    /\ pc = "notify"
    /\ Len(message) = 0
    /\ undelivered' = {}
    /\ pc' = "persist"
    /\ UNCHANGED << config, fileVars, cycle, old_floors, message, floors, wg,
                    workerVars, ghostVars, fetchVars, sends, sentText, writes, written,
                    loadErr, unwritten >>

\* saveFloor(old_floors, floors, output): the new entries are appended in the
\* order of the range over the map, and the whole slice is written.
\* ioutil.WriteFile: "ok" replaces the content; "denied" fails before the
\* file is truncated; "torn" fails after it was.
saveFloor(order, outcome) ==
    LET persisted == Appended(old_floors, floors, order, cycle) IN
    /\ writes' = writes + 1
    /\ written' = persisted
    /\ unwritten' = IF outcome = "ok" THEN {}
                    ELSE { << slug, floors[slug] >> : slug \in DOMAIN floors }
    /\ CASE outcome = "ok"     -> file' = persisted /\ fileState' = "ok"
         [] outcome = "denied" -> UNCHANGED fileVars
         [] outcome = "torn"   -> file' = << >> /\ fileState' = "corrupt"

\* if len(floors) > 0 { saveFloor(...) }; watchFloor returns, main sleeps
Persist(order, outcome) ==
    /\ pc = "persist"
    /\ DOMAIN floors # {}
    /\ order \in Orders(DOMAIN floors)
    /\ saveFloor(order, outcome)
    /\ pc' = "sleep"
    /\ UNCHANGED << config, cycle, old_floors, message, floors, wg,
                    workerVars, ghostVars, fetchVars, sends, sentText, loadErr, undelivered >>

SkipPersist ==
    /\ pc = "persist"
    /\ DOMAIN floors = {}
    /\ unwritten' = {}
    /\ pc' = "sleep"
    /\ UNCHANGED << config, fileVars, cycle, old_floors, message, floors, wg,
                    workerVars, ghostVars, fetchVars, sends, sentText, writes, written,
                    loadErr, undelivered >>

\* ----------------------------------------------------------- specification
Next ==
    \/ \E ok \in BOOLEAN : StartCycle(ok) /\ UNCHANGED callVars
    \/ \E w \in Workers : FetchStart(w) /\ UNCHANGED callVars
    \/ \E w \in Workers : FetchErr(w) /\ UNCHANGED callVars
    \/ \E w \in Workers, v \in Floors : FetchOK(w, v) /\ UNCHANGED callVars
    \/ \E w \in Workers : MapWriteBegin(w) /\ UNCHANGED callVars
    \/ \E w \in Workers :
          wpc[w] = "recording" /\ \E m \in MapWriteResults(w) : MapWriteEnd(w, m) /\ UNCHANGED callVars
    \/ \E w \in Workers : MapWriteThrow(w) /\ UNCHANGED callVars
    \/ \E w \in Workers : AppendRead(w) /\ UNCHANGED callVars
    \/ \E w \in Workers : AppendWrite(w) /\ UNCHANGED callVars
    \/ \E w \in Workers : WorkerDone(w) /\ UNCHANGED callVars
    \/ WgWait /\ UNCHANGED callVars
    \/ \E delivered \in BOOLEAN : Notify(delivered) /\ UNCHANGED callVars
    \/ SkipNotify /\ UNCHANGED callVars
    \/ \E order \in Orders(DOMAIN floors), outcome \in {"ok", "denied", "torn"} :
          Persist(order, outcome) /\ UNCHANGED callVars
    \/ SkipPersist /\ UNCHANGED callVars

Spec == Init /\ [][Next]_vars

\* The scheduler runs a goroutine that can run, every http.Get returns and
\* main wakes from its Sleep: a step that stays possible is taken.
FairSpec == Spec /\ WF_vars(Next)

\* ------------------------------------------------- the functions on their own
\* fetchFloor, findFloor and the formatting of an alert line, each called
\* once on arguments drawn from bounded sets.
FetchFloorCalls ==
    { [fn |-> "fetchFloor", body |-> b, tree |-> t, multiplier |-> k] :
        b \in Bodies, t \in Trees, k \in Multipliers }

HistoryEntries == { Persisted(sl, fl, 0) : sl \in {"x", "y"}, fl \in {0, 2, 3} }

FindFloorCalls ==
    { [fn |-> "findFloor", persisted |-> h, slug |-> sl] :
        h \in SeqsUpTo(HistoryEntries, MaxHistory), sl \in {"x", "y"} }

AlertFloors == -1..3

AlertCalls ==
    { [fn |-> "alert", w |-> w, slug |-> "x", floor |-> fl, old |-> old] :
        w \in {1, 2}, fl \in AlertFloors, old \in AlertFloors }

CallInit ==
    /\ WatchInit
    /\ call \in FetchFloorCalls \cup FindFloorCalls \cup AlertCalls
    /\ ret = NoRet

\* floor, err := fetchFloor(url, store.Tree, store.Multiplier)
CallFetchFloor ==
    /\ call.fn = "fetchFloor"
    /\ ~ret.done
    /\ ret' = fetchFloor(call.body, call.tree, call.multiplier)
    /\ UNCHANGED << watchVars, call >>

\* old_floor := findFloor(old_floors, slug)
CallFindFloor ==
    /\ call.fn = "findFloor"
    /\ ~ret.done
    /\ ret' = Returned(findFloor(call.persisted, call.slug))
    /\ UNCHANGED << watchVars, call >>

\* dif and msg of watchFloor for a floor and a previous floor
CallAlert ==
    /\ call.fn = "alert"
    /\ ~ret.done
    /\ ret' = [done |-> TRUE,
               line |-> AlertLine(call.w, call.slug, call.floor, call.old)]
    /\ UNCHANGED << watchVars, call >>

CallNext ==
    \/ CallFetchFloor
    \/ CallFindFloor
    \/ CallAlert

CallSpec == CallInit /\ [][CallNext]_vars

\* ============================================================== properties
\* Vocabulary of the properties, written without the operators of the model.

Range(seq) == { seq[i] : i \in 1..Len(seq) }

IsPrefix(a, b) == Len(a) <= Len(b) /\ SubSeq(b, 1, Len(a)) = a

\* the floor of the newest entry of the history for the slug, 0 without one
PreviousFloor(history, slug) ==
    LET at == { i \in 1..Len(history) : history[i].slug = slug } IN
    IF at = {} THEN 0
    ELSE history[CHOOSE i \in at : \A j \in at : j <= i].floor

\* watchFloor has returned from a cycle
CycleDone == pc = "sleep" /\ cycle > 0

\* wg.Wait() has returned in the current cycle
AfterJoin == pc \in {"notify", "persist"} \/ CycleDone

\* the slugs whose processing the workers have finished in this cycle
Handled == UNION { { << w, h >> : h \in Range(handled[w]) } : w \in Workers }

\* the lines of the text sent, without the newlines between them
SentLines == { l \in Range(sentText) : l # NL }

LinesOf(w, slug) ==
    { l \in produced : l.slug = slug /\ l.url = Stores[w].StoreURL }

\* ---------------------------------------------------------------------- C1
\* C1: when a cycle has ended, sendMessage was called once if a worker
\* produced an alert line in the cycle and not at all otherwise, and the text
\* sent is made of all the alert lines produced in the cycle, each once,
\* joined by newlines.
C1_OneBatchedSend ==
    CycleDone =>
        /\ sends = (IF produced # {} THEN 1 ELSE 0)
        /\ sends = 1 =>
              \E lines \in [1..Cardinality(produced) -> produced] :
                  /\ Range(lines) = produced
                  /\ sentText = Join(lines)

\* ---------------------------------------------------------------------- C2
\* C2: when a cycle has ended, saveFloor was called once if a worker recorded
\* a floor in the cycle and not at all otherwise, and the sequence written is
\* the history loaded followed by one Observation, dated now, for every slug
\* recorded, carrying a floor recorded for it.
C2_OneWrite ==
    CycleDone =>
        LET slugs == { r[2] : r \in recorded }
            n     == Len(old_floors)
        IN  /\ writes = (IF recorded # {} THEN 1 ELSE 0)
            /\ writes = 1 =>
                  /\ Len(written) = n + Cardinality(slugs)
                  /\ IsPrefix(old_floors, written)
                  /\ \A s \in slugs :
                        \E i \in (n + 1)..Len(written) :
                            /\ written[i].slug = s
                            /\ written[i].date = cycle
                            /\ << written[i].slug, written[i].floor >>
                                   \in { << r[2], r[3] >> : r \in recorded }

\* ---------------------------------------------------------------------- C3
\* C3: a cycle in which every floor fetched equals the newest floor the
\* loaded history holds for its slug (0 included) ends with no call of
\* sendMessage and no call of saveFloor.
NothingChanged ==
    \A e \in Handled :
        e[2].floor # NoFloor =>
            /\ \E i \in 1..Len(old_floors) : old_floors[i].slug = e[2].slug
            /\ PreviousFloor(old_floors, e[2].slug) = e[2].floor

C3_IdempotentEmptyCycle ==
    (CycleDone /\ NothingChanged) => (sends = 0 /\ writes = 0)

\* ---------------------------------------------------------------------- C4
\* C4: for every store and slug, at most one alert line is produced between
\* two changes of the floor the marketplace returns for the slug.
C4_OneAlertPerChange ==
    \A w \in Workers : \A i \in 1..Len(Stores[w].Slugs) : alertsSince[w][i] <= 1

\* ---------------------------------------------------------------------- C5
\* C5: every write of the history file that succeeds leaves the content the
\* file had before as a prefix of its new content.
C5_AppendOnly ==
    [][ (writes' = writes + 1 /\ fileState' = "ok") => IsPrefix(file, file') ]_vars

C7_UnchangedSuppressed ==
    \A e \in Handled :
        LET w    == e[1]
            h    == e[2]
            prev == PreviousFloor(old_floors, h.slug)
        IN  (prev > 0 /\ prev = h.floor) =>
                /\ LinesOf(w, h.slug) = {}
                /\ \A r \in recorded : ~(r[1] = w /\ r[2] = h.slug)

\* a worker has finished a slug whose floor is the one the history holds
C7_Witness ==
    \E e \in Handled :
        /\ PreviousFloor(old_floors, e[2].slug) > 0
        /\ PreviousFloor(old_floors, e[2].slug) = e[2].floor

\* ---------------------------------------------------------------------- C8
\* C8: no two workers are inside an assignment to the map floors at the same
\* time, and no two are inside an append to message at the same time.
C8_WritesSerialized ==
    \A w, u \in Workers :
        w # u =>
            /\ ~(wpc[w] = "recording" /\ wpc[u] = "recording")
            /\ ~(wpc[w] = "appending" /\ wpc[u] = "appending")

\* ---------------------------------------------------------------------- C9
\* C9: once the wait has returned, every alert line a worker produced is in
\* message, and every floor a worker recorded is in the map under its slug.
C9_AggregationComplete ==
    AfterJoin =>
        /\ \A l \in produced : l \in Range(message)
        /\ \A r \in recorded : r[2] \in DOMAIN floors /\ floors[r[2]] = r[3]

\* --------------------------------------------------------------------- C10
\* C10: whenever the cycle is past its wait, or has sent or written, every
\* worker has called wg.Done() after finishing every slug of its store, and
\* none is inside the loop any more.
C10_BarrierJoin ==
    (pc \in {"notify", "persist"} \/ sends > 0 \/ writes > 0) =>
        \A w \in Workers :
            /\ wpc[w] = "done"
            /\ Len(handled[w]) = Len(Stores[w].Slugs)

\* the cycle has sent and written after both workers recorded and alerted
C10_Witness ==
    /\ sends > 0
    /\ writes > 0
    /\ \A w \in Workers : \E r \in recorded : r[1] = w

\* --------------------------------------------------------------------- C11
\* C11: a slug whose fetch failed has no floor recorded and no alert line by
\* its worker; and when a cycle with such a failure has ended, every worker
\* has finished every slug of its store, and every alert line and every floor
\* of the other stores' workers is in the text sent and in the sequence
\* written.
C11_FailureIsolation ==
    \A e \in Handled :
        LET w == e[1]
            h == e[2]
        IN  h.floor = NoFloor =>
                /\ LinesOf(w, h.slug) = {}
                /\ \A r \in recorded : ~(r[1] = w /\ r[2] = h.slug)
                /\ CycleDone =>
                      \A u \in Workers :
                          /\ Len(handled[u]) = Len(Stores[u].Slugs)
                          /\ u # w =>
                                /\ \A l \in produced :
                                       l.url = Stores[u].StoreURL => l \in SentLines
                                /\ \A r \in recorded :
                                       r[1] = u =>
                                           \E i \in (Len(old_floors) + 1)..Len(written) :
                                               /\ written[i].slug = r[2]
                                               /\ written[i].floor = r[3]

\* --------------------------------------------------------------------- C12
\* C12: a cycle whose delivery failed still calls saveFloor when a floor was
\* recorded and ends; and in the cycle after a failure, once the wait has
\* returned, every alert line whose delivery failed has been produced again
\* and every floor whose write failed has been recorded again, when the fetch
\* of its slug returned the same floor.
C12_RetryNextCycle ==
    /\ (CycleDone /\ undelivered # {} /\ DOMAIN floors # {}) => writes = 1
    /\ pc = "notify" =>
          /\ \A a \in undelivered :
                (\E e \in Handled :
                    /\ Stores[e[1]].StoreURL = a.url
                    /\ e[2].slug = a.slug
                    /\ e[2].floor = a.floor)
                => \E l \in produced :
                       l.url = a.url /\ l.slug = a.slug /\ l.floor = a.floor
          /\ \A u \in unwritten :
                (\E e \in Handled : e[2].slug = u[1] /\ e[2].floor = u[2])
                => /\ \E r \in recorded : r[2] = u[1] /\ r[3] = u[2]
                   /\ u[1] \in DOMAIN floors

C14_LastEntryIsFetched ==
    (CycleDone /\ ~loadErr /\ writes = 1 /\ unwritten = {}) =>
        \A e \in Handled :
            e[2].floor # NoFloor =>
                PreviousFloor(file, e[2].slug) = e[2].floor

\* --------------------------------------------------------------------- C15
\* the extractor of the specification: the node reached from the document by
\* the first j keys of the path, each of them found in an object
Missing == [t |-> "missing", n |-> 0, m |-> EmptyMap]

RECURSIVE NodeAt(_, _, _)
NodeAt(document, path, j) ==
    IF j = 0 THEN document
    ELSE LET parent == NodeAt(document, path, j - 1)
         IN  IF parent.t = "obj" /\ path[j] \in DOMAIN parent.m
             THEN parent.m[path[j]]
             ELSE Missing

\* the keys of the path under which the walk finds a number
Hits(document, path) ==
    { k \in 1..Len(path) : NodeAt(document, path, k).t = "num" }

\* C15: for every body that is a JSON document, every tree and multiplier,
\* fetchFloor returns the number first reached along the tree through nested
\* objects, times the multiplier, whether or not keys remain after it; and it
\* returns an error exactly when the walk reaches no number: a key is
\* missing, the value under it is neither a number nor an object, or the
\* tree ends first.  A body that is no JSON document gives an error.
C15_ExtractorAgrees ==
    (call.fn = "fetchFloor" /\ ret.done) =>
        LET hits == Hits(call.body, call.tree)
        IN  IF call.body.t = "bad" \/ hits = {}
            THEN ret.err
            ELSE /\ ~ret.err
                 /\ \A k \in hits :
                       ret.val = NodeAt(call.body, call.tree, k).n * call.multiplier

\* {"a": 5} walked with the keys a, b and multiplier 2 has returned 10
C15_Witness ==
    /\ call.fn = "fetchFloor"
    /\ call.body = Obj([k \in {"a"} |-> Num(5)])
    /\ call.tree = << "a", "b" >>
    /\ call.multiplier = 2
    /\ ret.done
    /\ ~ret.err
    /\ ret.val = 10

\* --------------------------------------------------------------------- C16
\* C16: for every history and slug, findFloor returns the floor of the last
\* entry of the history, in sequence order, whose slug is the one asked for,
\* and 0 when no entry has that slug.
C16_LookupRecency ==
    (call.fn = "findFloor" /\ ret.done) =>
        ret.val = PreviousFloor(call.persisted, call.slug)

\* x is in the history twice, with 2 and then with 3, and 3 was returned
C16_Witness ==
    /\ call.fn = "findFloor"
    /\ call.persisted = << Persisted("x", 2, 0), Persisted("x", 3, 0) >>
    /\ call.slug = "x"
    /\ ret.done
    /\ ret.val = 3

\* --------------------------------------------------------------------- C17
\* C17: an alert line carries the positive marker exactly when the quotient
\* (floor - previous floor) / floor is above 0, and the other marker
\* otherwise; for a floor above 0 the marker is positive exactly when the
\* floor is above the previous floor, and a previous floor of 0 is then
\* shown as a rise of 100.00 percent.
C17_SignFormatting ==
    (call.fn = "alert" /\ ret.done) =>
        LET fl       == call.floor
            old      == call.old
            positive == ret.line.marker = "*(+%)*"
        IN  /\ ret.line.marker \in {"*(+%)*", "(%)"}
            /\ positive <=> \/ fl # 0 /\ (fl - old) * fl > 0
                            \/ fl = 0 /\ old < 0
            /\ fl > 0 => (positive <=> fl > old)
            /\ (fl > 0 /\ old = 0) =>
                  /\ positive
                  /\ ret.line.pct = [special |-> "", hundredths |-> 10000]

\* a floor of 3 after a previous floor of 0 was formatted as +100.00%
C17_Witness ==
    /\ call.fn = "alert"
    /\ call.floor = 3
    /\ call.old = 0
    /\ ret.done
    /\ ret.line.marker = "*(+%)*"
    /\ ret.line.pct.hundredths = 10000

\* --------------------------------------------------------------------- C18
\* the fetch of slug i of store w has returned a floor strictly inside the
\* band of the store that is not the newest floor the file holds for the slug
FetchedAlertable(w, i) ==
    /\ wpc[w] = "record"
    /\ idx[w] = i
    /\ floor[w] < Stores[w].Max
    /\ floor[w] > Stores[w].Min
    /\ floor[w] # PreviousFloor(file, Stores[w].Slugs[i])

Alerted(w, i) ==
    /\ wpc[w] # "idle"
    /\ i <= Len(Stores[w].Slugs)
    /\ LinesOf(w, Stores[w].Slugs[i]) # {}

\* C18: under fair scheduling, once the fetch of a slug has returned a floor
\* inside the band that differs from the last persisted floor of the slug, an
\* alert line for the slug is produced; and a worker starts the fetch of a
\* slug only once in a cycle, after finishing the slugs before it.
C18_EventualAlert ==
    /\ \A w \in {1, 2}, i \in {1, 2} : FetchedAlertable(w, i) ~> Alerted(w, i)
    /\ [][\A w \in {1, 2} :
            (wpc[w] # "fetching" /\ wpc'[w] = "fetching")
                => idx'[w] = Len(handled[w]) + 1]_vars

\* --------------------------------------------------------------------- C19
\* C19: when every fetch returns, a cycle that has started its workers gets
\* past the wait and ends, every worker having called wg.Done() once; and
\* while a fetch has not returned the cycle is not at its notify or persist
\* step.
C19_CycleTerminates ==
    /\ (pc = "wait") ~> (pc = "sleep" /\ wg = 0)
    /\ [](pc \in {"notify", "persist"} =>
             \A w \in {1, 2} : wpc[w] # "fetching")

\* --------------------------------------------------------------------- C20
\* C20: when a cycle has ended, for two slugs of one store of which the first
\* comes before the second in the list of the store: if the worker recorded
\* both and saveFloor was called, the Observation of the first comes before
\* the Observation of the second among those appended; and the alert line of
\* the first comes before the alert line of the second in message.
C20_SlugListOrder ==
    CycleDone =>
        \A w \in Workers :
            \A i, j \in 1..Len(Stores[w].Slugs) :
                LET s1 == Stores[w].Slugs[i]
                    s2 == Stores[w].Slugs[j]
                    n  == Len(old_floors)
                IN  i < j =>
                      /\ ( /\ writes = 1
                           /\ \E r \in recorded : r[1] = w /\ r[2] = s1
                           /\ \E r \in recorded : r[1] = w /\ r[2] = s2 )
                         => \A a, b \in (n + 1)..Len(written) :
                                (written[a].slug = s1 /\ written[b].slug = s2)
                                    => a < b
                      /\ \A a, b \in 1..Len(message) :
                            ( /\ message[a] \in LinesOf(w, s1)
                              /\ message[b] \in LinesOf(w, s2) )
                                => a < b

\* --------------------------------------------------------------------- C21
\* C21: at every moment of a cycle a worker has at most one call of http.Get
\* that has not returned; and while one is in flight, every slug of the
\* store fetched before it has been finished: its fetch returned and, when a
\* floor came back that was not unchanged, the floor was recorded, and an
\* alert line was produced if the floor is strictly inside the band.
C21_SequentialFetches ==
    \A w \in Workers :
        LET inflight == issued[w] - returned[w]
        IN  /\ inflight \in {0, 1}
            /\ issued[w] <= Len(Stores[w].Slugs)
            /\ inflight = 1 =>
                  /\ wpc[w] = "fetching"
                  /\ Len(handled[w]) = issued[w] - 1
                  /\ \A k \in 1..Len(handled[w]) :
                        LET h == handled[w][k]
                        IN  /\ h.slug = Stores[w].Slugs[k]
                            /\ (h.floor # NoFloor /\ ~(h.old > 0 /\ h.old = h.floor))
                                  => << w, h.slug, h.floor >> \in recorded
                            /\ ( /\ h.floor # NoFloor
                                 /\ ~(h.old > 0 /\ h.old = h.floor)
                                 /\ h.floor < Stores[w].Max
                                 /\ h.floor > Stores[w].Min )
                                  => LinesOf(w, h.slug) # {}

\* the fetch of the second slug of a store is in flight after the first slug
\* was recorded and alerted
C21_Witness ==
    \E w \in Workers :
        /\ issued[w] = 2
        /\ returned[w] = 1
        /\ wpc[w] = "fetching"
        /\ \E r \in recorded : r[1] = w
        /\ LinesOf(w, Stores[w].Slugs[1]) # {}

====
